---------------------------- MODULE Spec2Model ----------------------------
(***************************************************************************)
(* Progressive income tax: the two Taxes classes of the repository,        *)
(* src/bite269.py (absolute bracket ends) and                              *)
(* src/Favorites/dataclass_skeleton.py (additive previous_ceiling).        *)
(*                                                                         *)
(* Money is counted in cents (an income of 40,000.00 is 4000000), a rate   *)
(* in percent (0.12 is 12) and a tax rate in hundredths of a percent       *)
(* (11.65 is 1165).  Bracket.end is an int of whole dollars, as in the     *)
(* source.  round(x, 2) is computed on the exact decimal value, ties to    *)
(* even; the incomes enumerated below produce no exact decimal tie, where  *)
(* the binary float of the source would decide.                            *)
(***************************************************************************)
EXTENDS Integers, Sequences, FiniteSets

VARIABLES impl, arg, income, bracket, tax_amounts, calls, first, last, seen

vars == <<impl, arg, income, bracket, tax_amounts, calls, first, last, seen>>

\* Number of operations evaluated on one Taxes object.
MaxCalls == 3
\* Largest bracket end (whole dollars) of an enumerated bracket table.
MaxEnd == 3

(***************************************************************************)
(* Module-level data                                                       *)
(***************************************************************************)
Bracket(end, rate) == [end |-> end, rate |-> rate]

Taxed(amount, rate, tax) == [amount |-> amount, rate |-> rate, tax |-> tax]

BRACKET ==
    << Bracket(9700, 10), Bracket(39475, 12), Bracket(84200, 22),
       Bracket(160725, 24), Bracket(204100, 32), Bracket(510300, 35),
       Bracket(510301, 37) >>

\* Bracket.end, in cents.
End(b) == b.end * 100

(***************************************************************************)
(* Arithmetic of the source: round(), min(), sum()                         *)
(***************************************************************************)
\* The element of a one-element set.  Only({F(x) : x \in {e}}) is F of the
\* value of e, with e evaluated once, as an assignment to a local does.
Only(S) == CHOOSE v \in S : TRUE

Abs(x) == IF x < 0 THEN -x ELSE x

\* round(n / d) for d > 0: to nearest, ties to even, symmetric in the sign.
RoundHalfEven(n, d) ==
    LET a == Abs(n)
        q == a \div d
        r == a % d
        m == IF 2 * r > d \/ (2 * r = d /\ q % 2 = 1) THEN q + 1 ELSE q
    IN  IF n < 0 THEN -m ELSE m

\* round(amount * rate, 2): cents times percent, back to cents.
RoundTax(amount, rate) == RoundHalfEven(amount * rate, 100)

Min(a, b) == IF a <= b THEN a ELSE b

\* sum(t.tax for t in ta[i:]), i counting from 1.
RECURSIVE SumTaxFrom(_, _)
SumTaxFrom(ta, i) == IF i > Len(ta) THEN 0 ELSE ta[i].tax + SumTaxFrom(ta, i + 1)

SumTax(ta) == SumTaxFrom(ta, 1)

\* Long division of n >= 0 by d > 0 to k decimal digits: <<quotient, rest>>.
RECURSIVE LongDiv(_, _, _)
LongDiv(n, d, k) ==
    IF k = 0 THEN << n \div d, n % d >>
    ELSE Only({ << p[1] * 10 + (p[2] * 10) \div d, (p[2] * 10) % d >> :
                p \in {LongDiv(n, d, k - 1)} })

\* round((total / income) * 100, 2) for income # 0, in hundredths of a percent.
RoundRate(total, inc) ==
    Only({ LET d == Abs(inc)
               m == IF 2 * p[2] > d \/ (2 * p[2] = d /\ p[1] % 2 = 1)
                    THEN p[1] + 1 ELSE p[1]
           IN  IF (total < 0) # (inc < 0) THEN -m ELSE m :
           p \in {LongDiv(Abs(total), Abs(inc), 4)} })

(***************************************************************************)
(* src/bite269.py: class Taxes                                             *)
(***************************************************************************)
\* Taxes.__post_init__: an empty bracket argument is replaced by BRACKET.
\* (tax_amounts starts as the empty list: see Init.)
__post_init__(br) == IF br = <<>> THEN BRACKET ELSE br

\* Taxes._record: appends Taxed(amount, rate, round(amount * rate, 2)).
_record(ta, amount, rate) == Append(ta, Taxed(amount, rate, RoundTax(amount, rate)))

\* bite269_loop with the two tests income <= b.end written income < b.end.
RECURSIVE bite269_loop_strict(_, _, _, _)
bite269_loop_strict(inc, br, n, ta) ==
    IF n > Len(br) THEN ta
    ELSE LET b == br[n] IN
         IF n = 1
         THEN IF inc > End(b)
              THEN bite269_loop_strict(inc, br, n + 1, _record(ta, End(b), b.rate))
              ELSE _record(ta, inc, b.rate)
         ELSE IF n = Len(br)
         THEN bite269_loop_strict(inc, br, n + 1,
                                  _record(ta, inc - End(br[n - 1]), b.rate))
         ELSE LET amount == IF inc < End(b)
                            THEN inc - End(br[n - 1])
                            ELSE End(b) - End(br[n - 1])
                  ta2 == _record(ta, amount, b.rate)
              IN  IF inc < End(b) THEN ta2
                  ELSE bite269_loop_strict(inc, br, n + 1, ta2)

\* The for loop of Taxes.taxes from index n on (n counts from 1 here, from 0
\* in the source); the result is tax_amounts when the loop ends or breaks.
RECURSIVE bite269_loop(_, _, _, _)
bite269_loop(inc, br, n, ta) ==
    IF n > Len(br) THEN ta
    ELSE LET b == br[n] IN
         IF n = 1
         THEN IF inc > End(b)
              THEN bite269_loop(inc, br, n + 1, _record(ta, End(b), b.rate))
              ELSE _record(ta, inc, b.rate)
         ELSE IF n = Len(br)
         THEN bite269_loop(inc, br, n + 1, _record(ta, inc - End(br[n - 1]), b.rate))
         ELSE LET amount == IF inc <= End(b)
                            THEN inc - End(br[n - 1])
                            ELSE End(b) - End(br[n - 1])
                  ta2 == _record(ta, amount, b.rate)
              IN  IF inc <= End(b) THEN ta2 ELSE bite269_loop(inc, br, n + 1, ta2)

\* bite269_allocate without its guard: the loop runs on every evaluation.
bite269_allocate_unguarded(inc, br, ta) == bite269_loop(inc, br, 1, ta)

\* The guard of Taxes.taxes: the loop runs only while tax_amounts is empty.
bite269_allocate(inc, br, ta) ==
    IF ta = <<>> THEN bite269_loop(inc, br, 1, ta) ELSE ta

\* round(sum(t.tax for t in self.tax_amounts), 2): a sum of whole cents.
round_sum(ta) == Only({ RoundHalfEven(x, 1) : x \in {SumTax(ta)} })

\* What a method leaves and returns: tax_amounts after it, whether it raised,
\* its value, and the values its evaluations of taxes and total returned.
Value(a, v) == [amounts |-> a, err |-> FALSE, val |-> v, vals |-> {v}]

\* A ZeroDivisionError raised after the evaluation t.
ZeroDivision(t) == [amounts |-> t.amounts, err |-> TRUE, val |-> 0, vals |-> t.vals]

\* Taxes.taxes: fills tax_amounts, returns self.total (tax_amounts is not
\* empty then: the loop records at least once on a non-empty bracket).
bite269_taxes(inc, br, ta) ==
    Only({ Value(a, round_sum(a)) : a \in {bite269_allocate(inc, br, ta)} })

\* Taxes.total
bite269_total(inc, br, ta) ==
    IF ta = <<>> THEN bite269_taxes(inc, br, ta) ELSE Value(ta, round_sum(ta))

\* bite269_tax_rate with a guard that answers 0 for an income of 0.
bite269_tax_rate_guarded(inc, br, ta) ==
    Only({ [amounts |-> t.amounts, err |-> FALSE,
            val |-> IF inc = 0 THEN 0 ELSE RoundRate(t.val, inc), vals |-> t.vals] :
           t \in {bite269_total(inc, br, ta)} })

\* Taxes.tax_rate: t is self.total; ZeroDivisionError when income is 0.
bite269_tax_rate(inc, br, ta) ==
    Only({ IF inc = 0 THEN ZeroDivision(t)
           ELSE [amounts |-> t.amounts, err |-> FALSE,
                 val |-> RoundRate(t.val, inc), vals |-> t.vals] :
           t \in {bite269_total(inc, br, ta)} })

\* The summary: Taxes Owed t.val, then Tax Rate r.val (or r's error).
SummaryOf(t, r) ==
    [amounts |-> r.amounts, err |-> r.err, owed |-> t.val, rate |-> r.val,
     vals |-> t.vals \cup r.vals]

\* Taxes.__str__: t is self.taxes, then r is self.tax_rate.
bite269_str(inc, br, ta) ==
    Only({ Only({ SummaryOf(t, r) : r \in {bite269_tax_rate(inc, br, t.amounts)} }) :
           t \in {bite269_taxes(inc, br, ta)} })

\* The report: the summary s, one line per entry of tax_amounts as s left it,
\* then Total = t.val.
ReportOf(s, t) ==
    [amounts |-> t.amounts, err |-> FALSE, owed |-> s.owed, rate |-> s.rate,
     lines |-> s.amounts, total |-> t.val, vals |-> s.vals \cup t.vals]

\* str(self) raised: report prints nothing.
ReportFailed(s) ==
    [amounts |-> s.amounts, err |-> TRUE, owed |-> 0, rate |-> 0,
     lines |-> <<>>, total |-> 0, vals |-> s.vals]

\* Taxes.report: s is str(self), then the loop over tax_amounts, then t is
\* self.taxes.
bite269_report(inc, br, ta) ==
    Only({ IF s.err THEN ReportFailed(s)
           ELSE Only({ ReportOf(s, t) : t \in {bite269_taxes(inc, br, s.amounts)} }) :
           s \in {bite269_str(inc, br, ta)} })

(***************************************************************************)
(* src/Favorites/dataclass_skeleton.py: class Taxes                        *)
(***************************************************************************)
\* skeleton_loop with previous_ceiling never advanced.
RECURSIVE skeleton_loop_fixed_ceiling(_, _, _, _, _)
skeleton_loop_fixed_ceiling(br, i, previous_ceiling, remaining_income, ta) ==
    IF i > Len(br) THEN ta
    ELSE Only({ LET b == br[i]
                    tier_tax == RoundTax(tier_income, b.rate)
                    ta2 == Append(ta, Taxed(tier_income, b.rate, tier_tax))
                IN  IF remaining_income - tier_income <= 0 THEN ta2
                    ELSE skeleton_loop_fixed_ceiling(br, i + 1, previous_ceiling,
                                                     remaining_income - tier_income, ta2) :
                tier_income \in {Min(remaining_income, End(br[i]) - previous_ceiling)} })

\* The for loop of Taxes.taxes from index i on (i counts from 1 here).
RECURSIVE skeleton_loop(_, _, _, _, _)
skeleton_loop(br, i, previous_ceiling, remaining_income, ta) ==
    IF i > Len(br) THEN ta
    ELSE Only({ LET b == br[i]
                    tier_tax == RoundTax(tier_income, b.rate)
                    ta2 == Append(ta, Taxed(tier_income, b.rate, tier_tax))
                IN  IF remaining_income - tier_income <= 0 THEN ta2
                    ELSE skeleton_loop(br, i + 1, previous_ceiling + End(b),
                                       remaining_income - tier_income, ta2) :
                tier_income \in {Min(remaining_income, End(br[i]) - previous_ceiling)} })

\* Taxes.taxes: no guard, every evaluation appends to tax_amounts.
skeleton_taxes(inc, br, ta) ==
    Only({ Value(a, round_sum(a)) : a \in {skeleton_loop(br, 1, 0, inc, ta)} })

\* Taxes.total: the sum of whatever tax_amounts holds (0 when it is empty).
skeleton_total(inc, br, ta) == Value(ta, round_sum(ta))

\* Taxes.tax_rate: t is self.total; ZeroDivisionError when income is 0.
skeleton_tax_rate(inc, br, ta) ==
    Only({ IF inc = 0 THEN ZeroDivision(t)
           ELSE [amounts |-> t.amounts, err |-> FALSE,
                 val |-> RoundRate(t.val, inc), vals |-> t.vals] :
           t \in {skeleton_total(inc, br, ta)} })

\* Taxes.__str__: t is self.taxes, then r is self.tax_rate.
skeleton_str(inc, br, ta) ==
    Only({ Only({ SummaryOf(t, r) : r \in {skeleton_tax_rate(inc, br, t.amounts)} }) :
           t \in {skeleton_taxes(inc, br, ta)} })

\* Taxes.report: s is str(self), then the loop over tax_amounts, then t is
\* self.taxes.
skeleton_report(inc, br, ta) ==
    Only({ IF s.err THEN ReportFailed(s)
           ELSE Only({ ReportOf(s, t) : t \in {skeleton_taxes(inc, br, s.amounts)} }) :
           s \in {skeleton_str(inc, br, ta)} })

(***************************************************************************)
(* Inputs: the arguments of Taxes(income, bracket)                         *)
(***************************************************************************)
Impls == {"bite269", "skeleton"}

RECURSIVE Ascending(_)
\* The elements of a finite set of integers as an increasing sequence.
Ascending(S) ==
    IF S = {} THEN <<>>
    ELSE LET m == CHOOSE x \in S : \A y \in S : x <= y
         IN  <<m>> \o Ascending(S \ {m})

Reverse(q) == [i \in 1..Len(q) |-> q[Len(q) + 1 - i]]

\* A bracket table with the given ends; the rates are those of BRACKET, in order.
Table(ends) == [i \in 1..Len(ends) |-> Bracket(ends[i], BRACKET[i].rate)]

\* Positive, strictly increasing ends.
ValidEnds == {Ascending(S) : S \in (SUBSET (1..MaxEnd)) \ {{}}}

\* Ends that are not strictly increasing: decreasing ones, and a repeated end.
InvalidEnds ==
    {Reverse(q) : q \in {v \in ValidEnds : Len(v) >= 2}} \cup {<<e, e>> : e \in 1..MaxEnd}

IsValid(br) ==
    /\ Len(br) >= 1
    /\ br[1].end > 0
    /\ \A i \in 1..(Len(br) - 1) : br[i].end < br[i + 1].end

\* The bracket argument: omitted (the empty list), or a table.
BracketArgs == {<<>>} \cup {Table(q) : q \in ValidEnds \cup InvalidEnds}

\* Incomes tried with the default table, in cents: each bracket end and the
\* values around it, the docstring's 40,000, and a negative income.
DefaultIncomes ==
    { -100, 0, 1, 969999, 970000, 970001, 3947500, 4000000, 4000033, 7450000,
      7450100, 8000000, 8420000, 8420001, 10185000, 10185100, 16072500,
      20410000, 51030000, 51030033, 51030100, 55000000 }

\* Incomes tried with the enumerated tables, in cents: every half dollar from
\* -1.00 to MaxEnd + 1, and one cent below and above each whole dollar.
GenericIncomes ==
    {50 * k : k \in -2..(2 * MaxEnd + 2)}
        \cup {100 * e - 1 : e \in 1..MaxEnd} \cup {100 * e + 1 : e \in 1..MaxEnd}

(***************************************************************************)
(* State: one Taxes object of either file, and what was evaluated on it    *)
(***************************************************************************)
\* impl        which file's class the object is an instance of
\* arg         the bracket argument the object was constructed with
\* income      self.income          bracket      self.bracket
\* tax_amounts self.tax_amounts
\* calls       number of operations evaluated so far
\* first, last the first and the latest operation and what it returned/printed
\* seen        every value an evaluation of taxes or total has returned so far
NoOp ==
    [op |-> "none", err |-> FALSE, val |-> 0, owed |-> 0, rate |-> 0,
     lines |-> <<>>, total |-> 0, amounts |-> <<>>]

\* What a property read returned (val), or ZeroDivisionError (err).
Returned(op, r) ==
    [op |-> op, err |-> r.err, val |-> r.val, owed |-> 0, rate |-> 0,
     lines |-> <<>>, total |-> 0, amounts |-> r.amounts]

\* What __str__ returned: the Taxes Owed and Tax Rate fields of the summary.
Summary(op, r) ==
    [op |-> op, err |-> r.err, val |-> 0, owed |-> r.owed, rate |-> r.rate,
     lines |-> <<>>, total |-> 0, amounts |-> r.amounts]

\* What report printed: the summary, the breakdown lines and the Total line.
Printed(op, r) ==
    [op |-> op, err |-> r.err, val |-> 0, owed |-> r.owed, rate |-> r.rate,
     lines |-> r.lines, total |-> r.total, amounts |-> r.amounts]

Init ==
    /\ impl \in Impls
    /\ arg \in BracketArgs
    /\ bracket = __post_init__(arg)
    /\ income \in (IF arg = <<>> THEN DefaultIncomes ELSE GenericIncomes)
    /\ tax_amounts = <<>>
    /\ calls = 0
    /\ first = NoOp
    /\ last = NoOp
    /\ seen = {}

\* One operation on the object: r is what the method computed, res its record.
Evaluate(r, res) ==
    /\ calls < MaxCalls
    /\ tax_amounts' = r.amounts
    /\ calls' = calls + 1
    /\ last' = res
    /\ first' = IF calls = 0 THEN res ELSE first
    /\ seen' = seen \cup r.vals
    /\ UNCHANGED <<impl, arg, income, bracket>>

Bite269Taxes ==
    /\ impl = "bite269"
    /\ \E r \in {bite269_taxes(income, bracket, tax_amounts)} : Evaluate(r, Returned("taxes", r))

Bite269Total ==
    /\ impl = "bite269"
    /\ \E r \in {bite269_total(income, bracket, tax_amounts)} : Evaluate(r, Returned("total", r))

Bite269TaxRate ==
    /\ impl = "bite269"
    /\ \E r \in {bite269_tax_rate(income, bracket, tax_amounts)} : Evaluate(r, Returned("tax_rate", r))

Bite269Str ==
    /\ impl = "bite269"
    /\ \E r \in {bite269_str(income, bracket, tax_amounts)} : Evaluate(r, Summary("__str__", r))

Bite269Report ==
    /\ impl = "bite269"
    /\ \E r \in {bite269_report(income, bracket, tax_amounts)} : Evaluate(r, Printed("report", r))

SkeletonTaxes ==
    /\ impl = "skeleton"
    /\ \E r \in {skeleton_taxes(income, bracket, tax_amounts)} : Evaluate(r, Returned("taxes", r))

SkeletonTotal ==
    /\ impl = "skeleton"
    /\ \E r \in {skeleton_total(income, bracket, tax_amounts)} : Evaluate(r, Returned("total", r))

SkeletonTaxRate ==
    /\ impl = "skeleton"
    /\ \E r \in {skeleton_tax_rate(income, bracket, tax_amounts)} : Evaluate(r, Returned("tax_rate", r))

SkeletonStr ==
    /\ impl = "skeleton"
    /\ \E r \in {skeleton_str(income, bracket, tax_amounts)} : Evaluate(r, Summary("__str__", r))

SkeletonReport ==
    /\ impl = "skeleton"
    /\ \E r \in {skeleton_report(income, bracket, tax_amounts)} : Evaluate(r, Printed("report", r))

Next ==
    \/ Bite269Taxes
    \/ Bite269Total
    \/ Bite269TaxRate
    \/ Bite269Str
    \/ Bite269Report
    \/ SkeletonTaxes
    \/ SkeletonTotal
    \/ SkeletonTaxRate
    \/ SkeletonStr
    \/ SkeletonReport

Spec == Init /\ [][Next]_vars

(***************************************************************************)
(* Properties                                                              *)
(***************************************************************************)
\* sum(t.amount for t in ta[i:]), i counting from 1.
RECURSIVE SumAmountFrom(_, _)
SumAmountFrom(ta, i) ==
    IF i > Len(ta) THEN 0 ELSE ta[i].amount + SumAmountFrom(ta, i + 1)

SumAmount(ta) == SumAmountFrom(ta, 1)

\* The first operation on the fresh object was an evaluation of taxes.
FirstTaxes == first.op = "taxes"

\* The state right after taxes, then tax_rate, on a fresh object.
TaxesThenRate == FirstTaxes /\ calls = 2 /\ last.op = "tax_rate"

\* The docstring's breakdown of 40,000.
Breakdown40000 ==
    << Taxed(970000, 10, 97000), Taxed(2977500, 12, 357300), Taxed(52500, 22, 11550) >>

\* C1: in bite269, for every income >= 0 and every valid bracket table (one
\* entry included), the amounts recorded by the first evaluation of taxes on
\* a fresh object sum to the income.
C1_Conservation ==
    (impl = "bite269" /\ income >= 0 /\ IsValid(bracket) /\ FirstTaxes)
        => SumAmount(first.amounts) = income

\* C2: for income 40,000 and the default table, in both files, the first
\* evaluation of taxes on a fresh object records the three allocations of the
\* docstring in order and returns 4,658.50, and tax_rate is then 11.65.
C2_Docstring40000 ==
    (income = 4000000 /\ bracket = BRACKET /\ FirstTaxes)
        => /\ first.amounts = Breakdown40000
           /\ first.val = 465850
           /\ ~first.err
           /\ TaxesThenRate => (~last.err /\ last.val = 1165)

C2_Witness ==
    /\ impl = "skeleton"
    /\ income = 4000000
    /\ bracket = BRACKET
    /\ TaxesThenRate
    /\ last.val = 1165

\* C3: in the skeleton, with the default table, the value of the first
\* evaluation of taxes on a fresh object never decreases when the income
\* increases: for 0 <= a <= b, taxes of Taxes(a) <= taxes of Taxes(b).
C3_Monotone ==
    (impl = "skeleton" /\ bracket = BRACKET /\ income >= 0 /\ FirstTaxes)
        => \A a \in DefaultIncomes :
              (0 <= a /\ a <= income)
                  => skeleton_taxes(a, BRACKET, <<>>).val <= first.val

\* C4: in bite269, with income > 0, the allocation list is computed once:
\* after the first operation no operation changes tax_amounts, and every
\* evaluation of taxes and of total, the first one's included, returns one
\* and the same value.
C4_ComputedOnce ==
    [][(impl = "bite269" /\ income > 0)
          => /\ Cardinality(seen') <= 1
             /\ calls >= 1 => /\ tax_amounts' = tax_amounts
                              /\ seen' = seen
                              /\ last'.op \in {"taxes", "total"} => seen = {last'.val}]_vars

C4_Witness ==
    /\ impl = "bite269"
    /\ income > 0
    /\ first.op = "report"
    /\ calls = 3
    /\ last.op = "taxes"
    /\ Len(tax_amounts) >= 2
    /\ seen = {last.val}

\* C5: in the skeleton, one report() on a fresh object with income > 0 prints
\* a Total equal to the Taxes Owed of the summary and to the sum of the tax
\* values of the breakdown lines it prints.
C5_ReportConsistent ==
    (impl = "skeleton" /\ income > 0 /\ first.op = "report")
        => /\ ~first.err
           /\ first.total = first.owed
           /\ first.total = SumTax(first.lines)

\* C6: in bite269, a negative income, an empty bracket table or a table whose
\* ends are not strictly increasing makes taxes end in an error, with
\* tax_amounts left empty.
C6_InvalidRejected ==
    (impl = "bite269" /\ FirstTaxes /\ (income < 0 \/ arg = <<>> \/ ~IsValid(arg)))
        => (first.err /\ first.amounts = <<>>)

\* C7: for income 0 and the default table, in both files, taxes on a fresh
\* object records exactly one allocation (0 at 0.10 = 0) and returns 0;
\* tax_rate then fails with a division by zero and tax_amounts still holds
\* exactly that allocation.
C7_ZeroIncome ==
    (income = 0 /\ bracket = BRACKET /\ FirstTaxes)
        => /\ first.amounts = << Taxed(0, 10, 0) >>
           /\ first.val = 0
           /\ ~first.err
           /\ TaxesThenRate => (last.err /\ tax_amounts = << Taxed(0, 10, 0) >>)

C7_Witness ==
    /\ impl = "bite269"
    /\ income = 0
    /\ bracket = BRACKET
    /\ TaxesThenRate
    /\ last.err
    /\ Len(tax_amounts) = 1

\* C8: in bite269, for every valid table and every bracket k of it, when the
\* income is exactly the end of bracket k the first evaluation of taxes on a
\* fresh object records exactly one allocation per bracket up to k (k counted
\* from 1 here), the last of them end_k - end_(k-1), and nothing for bracket
\* k + 1.
C8_ExactEnd ==
    (impl = "bite269" /\ IsValid(bracket) /\ FirstTaxes)
        => \A k \in 1..Len(bracket) :
              income = End(bracket[k])
                  => /\ Len(first.amounts) = k
                     /\ first.amounts[k].amount =
                           End(bracket[k]) - (IF k = 1 THEN 0 ELSE End(bracket[k - 1]))

C8_Witness ==
    /\ impl = "bite269"
    /\ IsValid(bracket)
    /\ Len(bracket) >= 3
    /\ income = End(bracket[2])
    /\ FirstTaxes
    /\ Len(first.amounts) = 2

\* C9: for the default table and every income >= 0, the first evaluation of
\* taxes on a fresh skeleton object produces the same allocations and the
\* same total as the first evaluation of taxes on a fresh bite269 object.
C9_SameAsAbsolute ==
    (impl = "skeleton" /\ bracket = BRACKET /\ income >= 0 /\ FirstTaxes)
        => /\ first.amounts = bite269_taxes(income, BRACKET, <<>>).amounts
           /\ first.val = bite269_taxes(income, BRACKET, <<>>).val

\* C10: in the skeleton, for every income > 0 and the default table, tax_rate
\* returns round(T / income * 100, 2), T the total tax of that income (what
\* taxes returns on a fresh object), in every state of the object.
C10_TaxRate ==
    (impl = "skeleton" /\ bracket = BRACKET /\ income > 0 /\ last.op = "tax_rate")
        => /\ ~last.err
           /\ last.val = RoundRate(skeleton_taxes(income, BRACKET, <<>>).val, income)

=============================================================================
